---- MODULE Spec2Model ----
(***************************************************************************)
(* CustomCal: the ICS-to-normalized-event transformation of the main       *)
(* process (src/src/main/importIcs.ts) and, of the renderer (App.tsx),     *)
(* the grouping logic, the date formatting and the preview/selection/     *)
(* import session of the App component.                                    *)
(*                                                                         *)
(* Instants are epoch milliseconds counted from 00:00 UTC of OriginDay     *)
(* instead of 1970-01-01, so that they fit TLC's 32-bit integers; every    *)
(* use the code makes of them (differences, comparisons, local calendar    *)
(* fields) is invariant under that shift.                                  *)
(***************************************************************************)
EXTENDS Integers, Sequences, FiniteSets, TLC

VARIABLES
    tz,        \* the local time zone of the machine the main process runs on
    now,       \* what `new Date()` returns while the current record is mapped
    raw,       \* the raw node-ical record handed to the .filter/.map pipeline
    out,       \* result of the pipeline for `raw`: Pending, Skipped or [ev |-> event]
    rerun,     \* result of a second run of the map callback on `raw`, or Pending
    gInput,    \* argument of groupEventsBySummary (ParsedIcsEvent[])
    gOutput,   \* its return value (EventGroup[]), or NotRun before the call
    fEvents,   \* argument of formatEventDate / formatGroupDateRange
    fOut,      \* the formatted text, or NotFormatted before the call
    \* React state of App
    icsUrl,
    previewEvents,
    selectedGroups,
    isPreviewing,
    isAdding,
    isEditorOpen,
    log,
    \* number of previewCalendar calls awaited by runPreview
    pendingPreviews,
    \* event batches of the importCalendar calls awaited by addSelectedEvents
    pendingImports,
    \* the handler or completion that ran last
    lastOp

fmtVars == <<fEvents, fOut>>
sessVars == <<icsUrl, previewEvents, selectedGroups, isPreviewing, isAdding,
              isEditorOpen, log, pendingPreviews, pendingImports, lastOp>>
vars == <<tz, now, raw, out, rerun, gInput, gOutput, fmtVars, sessVars>>

----------------------------------------------------------------------------
(* Bounds of the model *)

MaxDay == 3          \* raw dates lie on local days 1..MaxDay of the window
MaxEvents == 3       \* longest event array handed to groupEventsBySummary
MaxPreview == 3      \* longest event array a preview call returns to the session
MaxInFlight == 2     \* cap on the calls of one kind awaited at the same time

(* Program constants *)

oneDay == 24 * 60 * 60 * 1000
oneHour == 60 * 60 * 1000

(* Model origin: days from 1970-01-01 to 2024-02-27, so that the window    *)
(* covers Feb 28, Feb 29, Mar 1, Mar 2 ... of a leap year.                 *)
OriginDay == 19780
\* Local day of the window on which a zone with a transition changes its
\* offset (at 02:00 local time).
TransitionDay == 2

----------------------------------------------------------------------------
(* JavaScript values of the raw record's fields *)

JsVal(tag, str, num) == [t |-> tag, s |-> str, n |-> num]
Undefined == JsVal("undefined", <<>>, 0)
JsNull == JsVal("null", <<>>, 0)
JsStr(str) == JsVal("string", str, 0)
JsNum(num) == JsVal("number", <<>>, num)
JsDate(ms) == JsVal("date", <<>>, ms)

\* `x instanceof Date`
InstanceOfDate(x) == x.t = "date"

\* `x ?? dflt`
Nullish(x) == x.t \in {"undefined", "null"}

\* truthiness of a JS value, as tested by `v.description ? ... : ''`
Truthy(x) ==
    CASE x.t = "undefined" -> FALSE
      [] x.t = "null" -> FALSE
      [] x.t = "string" -> x.s # <<>>
      [] x.t = "number" -> x.n # 0
      [] OTHER -> TRUE

Digit(k) == <<"0", "1", "2", "3", "4", "5", "6", "7", "8", "9">>[k + 1]

RECURSIVE NatToString(_)
NatToString(k) ==
    IF k < 10 THEN <<Digit(k)>> ELSE NatToString(k \div 10) \o <<Digit(k % 10)>>

\* String(x) for the values a summary, description or location can hold
String(x) ==
    CASE x.t = "string" -> x.s
      [] x.t = "number" -> NatToString(x.n)
      [] x.t = "null" -> <<"n", "u", "l", "l">>
      [] OTHER -> <<"u", "n", "d", "e", "f", "i", "n", "e", "d">>

NoTitle == <<"(", "n", "o", " ", "t", "i", "t", "l", "e", ")">>

----------------------------------------------------------------------------
(* Local time: the Date getters of the JS runtime *)

TimeZones == {"fixed", "fall", "spring"}

\* UTC instant at which the zone changes its offset: 02:00 local time of
\* TransitionDay, read with the offset in force before the change.
TransitionAt(zone) ==
    IF zone = "fall" THEN TransitionDay * oneDay + 2 * oneHour - 3 * oneHour
    ELSE TransitionDay * oneDay + 2 * oneHour - 2 * oneHour

\* Offset of local time from UTC at instant t: "fixed" is UTC+2 all along,
\* "fall" goes from UTC+3 back to UTC+2 (a 25-hour local day), "spring" goes
\* from UTC+2 forward to UTC+3 (a 23-hour local day).
TzOffset(zone, t) ==
    CASE zone = "fixed" -> 2 * oneHour
      [] zone = "fall" -> IF t < TransitionAt(zone) THEN 3 * oneHour ELSE 2 * oneHour
      [] zone = "spring" -> IF t < TransitionAt(zone) THEN 2 * oneHour ELSE 3 * oneHour

LocalMs(zone, t) == t + TzOffset(zone, t)

getHours(zone, t) == (LocalMs(zone, t) \div oneHour) % 24
getMinutes(zone, t) == (LocalMs(zone, t) \div 60000) % 60
getSeconds(zone, t) == (LocalMs(zone, t) \div 1000) % 60

\* number of the local calendar day of instant t, in days since 1970-01-01
LocalDayNumber(zone, t) == OriginDay + (LocalMs(zone, t) \div oneDay)

\* proleptic Gregorian date <<year, month, day>> of a day number
CivilFromDays(days) ==
    LET z == days + 719468
        era == z \div 146097
        doe == z - era * 146097
        yoe == (doe - (doe \div 1460) + (doe \div 36524) - (doe \div 146096)) \div 365
        doy == doe - (365 * yoe + (yoe \div 4) - (yoe \div 100))
        mp == (5 * doy + 2) \div 153
        d == doy - ((153 * mp + 2) \div 5) + 1
        m == IF mp < 10 THEN mp + 3 ELSE mp - 9
        y == yoe + era * 400
    IN  <<IF m <= 2 THEN y + 1 ELSE y, m, d>>

\* ymd(d): [d.getFullYear(), d.getMonth() + 1, d.getDate()]
ymd(zone, t) == CivilFromDays(LocalDayNumber(zone, t))

----------------------------------------------------------------------------
(* Event Normalizer: src/src/main/importIcs.ts *)

Null == <<>>

\* variant: the explicit date-only marker is not consulted
isAllDayEvent_ignoresMarker(zone, v) ==
    /\ InstanceOfDate(v.start)
    /\ InstanceOfDate(v.end)
    /\ getHours(zone, v.start.n) = 0 /\ getMinutes(zone, v.start.n) = 0
    /\ getSeconds(zone, v.start.n) = 0
    /\ getHours(zone, v.end.n) = 0 /\ getMinutes(zone, v.end.n) = 0
    /\ getSeconds(zone, v.end.n) = 0
    /\ v.end.n - v.start.n >= 0
    /\ (v.end.n - v.start.n) % oneDay = 0

\* variant: the heuristic asks for a strictly positive duration
isAllDayEvent_positiveDur(zone, v) ==
    \/ v.datetype = "date"
    \/ /\ InstanceOfDate(v.start)
       /\ InstanceOfDate(v.end)
       /\ getHours(zone, v.start.n) = 0 /\ getMinutes(zone, v.start.n) = 0
       /\ getSeconds(zone, v.start.n) = 0
       /\ getHours(zone, v.end.n) = 0 /\ getMinutes(zone, v.end.n) = 0
       /\ getSeconds(zone, v.end.n) = 0
       /\ v.end.n - v.start.n > 0
       /\ (v.end.n - v.start.n) % oneDay = 0

isAllDayEvent(zone, v) ==
    IF v.datetype = "date" THEN TRUE
    ELSE IF ~InstanceOfDate(v.start) THEN FALSE
    ELSE IF ~InstanceOfDate(v.end) THEN FALSE
    ELSE
        LET s == v.start.n
            e == v.end.n
            atMidnight ==
                /\ getHours(zone, s) = 0
                /\ getMinutes(zone, s) = 0
                /\ getSeconds(zone, s) = 0
                /\ getHours(zone, e) = 0
                /\ getMinutes(zone, e) = 0
                /\ getSeconds(zone, e) = 0
            dur == e - s
        IN  atMidnight /\ dur >= 0 /\ dur % oneDay = 0

\* variant: the start is always read from the clock
ResolveStart_alwaysClock(v, clock) == clock

\* const start: Date = v.start instanceof Date ? v.start : new Date()
ResolveStart(v, clock) == IF InstanceOfDate(v.start) THEN v.start.n ELSE clock

\* variant: the all-day adjustment is left out
ResolveEnd_noAllDayFix(v, allDay, start) ==
    IF InstanceOfDate(v.end) THEN v.end.n
    ELSE start + (IF allDay THEN oneDay ELSE oneHour)

\* variant: the fallback end is the next day for timed records too
ResolveEnd_dayFallback(v, allDay, start) ==
    LET end == IF InstanceOfDate(v.end) THEN v.end.n ELSE start + oneDay
    IN  IF allDay /\ end <= start THEN start + oneDay ELSE end

\* the `let end` declaration and the all-day adjustment that follows it
ResolveEnd(v, allDay, start) ==
    LET end == IF InstanceOfDate(v.end) THEN v.end.n
               ELSE start + (IF allDay THEN oneDay ELSE oneHour)
    IN  IF allDay /\ end <= start THEN start + oneDay ELSE end

\* variant: endYMD is filled in for timed events as well
NormalizeRecord_endYmdAlways(zone, clock, v) ==
    LET allDay == isAllDayEvent(zone, v)
        start == ResolveStart(v, clock)
        end == ResolveEnd(v, allDay, start)
    IN  [ summary |-> String(IF Nullish(v.summary) THEN JsStr(NoTitle) ELSE v.summary),
          description |-> IF Truthy(v.description) THEN String(v.description) ELSE <<>>,
          location |-> IF Truthy(v.location) THEN String(v.location) ELSE <<>>,
          isAllDay |-> allDay,
          startMs |-> start,
          endMs |-> end,
          startYMD |-> IF allDay THEN ymd(zone, start) ELSE Null,
          endYMD |-> ymd(zone, end) ]

\* the callback of .map(): one raw VEVENT record to one normalized event
NormalizeRecord(zone, clock, v) ==
    LET allDay == isAllDayEvent(zone, v)
        start == ResolveStart(v, clock)
        end == ResolveEnd(v, allDay, start)
    IN  [ summary |-> String(IF Nullish(v.summary) THEN JsStr(NoTitle) ELSE v.summary),
          description |-> IF Truthy(v.description) THEN String(v.description) ELSE <<>>,
          location |-> IF Truthy(v.location) THEN String(v.location) ELSE <<>>,
          isAllDay |-> allDay,
          startMs |-> start,
          endMs |-> end,
          startYMD |-> IF allDay THEN ymd(zone, start) ELSE Null,
          endYMD |-> IF allDay THEN ymd(zone, end) ELSE Null ]

\* .filter((v) => v?.type === 'VEVENT')
IsVEvent(v) == v.type = "VEVENT"

----------------------------------------------------------------------------
(* Inputs of the normalizer *)

\* Offsets from 00:00 UTC of a day: local 00:00 under UTC+3 and under UTC+2,
\* then half a second, one second and one minute past local midnight (UTC+2),
\* and midday.
DayOffsets ==
    { 0 - 3 * oneHour, 0 - 2 * oneHour, 500 - 2 * oneHour, 1000 - 2 * oneHour,
      60000 - 2 * oneHour, 10 * oneHour }

Instants == { d * oneDay + o : d \in 1..MaxDay, o \in DayOffsets }

\* node-ical stores a Date when DTSTART/DTEND parses, keeps the text when
\* it does not, and leaves the field out when the property is missing.
RawDates == {Undefined, JsStr(<<"x">>)} \cup { JsDate(t) : t \in Instants }

RawSummaries ==
    { Undefined, JsNull, JsStr(<<>>), JsStr(<<" ">>), JsStr(<<"A", "b">>), JsNum(42) }

RawTexts == { Undefined, JsStr(<<>>), JsStr(<<"x">>) }

DateTypes == {"undefined", "date", "date-time"}

VEventRecords ==
    [ type : {"VEVENT"}, datetype : DateTypes, start : RawDates, end : RawDates,
      summary : RawSummaries, description : RawTexts, location : {Undefined} ]
    \cup
    [ type : {"VEVENT"}, datetype : {"undefined"}, start : {Undefined}, end : {Undefined},
      summary : {Undefined}, description : {Undefined}, location : RawTexts ]

OtherRecords ==
    [ type : {"VTIMEZONE"}, datetype : {"undefined"}, start : {Undefined},
      end : {Undefined}, summary : {Undefined}, description : {Undefined},
      location : {Undefined} ]

RawRecords == VEventRecords \cup OtherRecords

ClockInstants == { MaxDay * oneDay + 10 * oneHour + 1234, (MaxDay + 1) * oneDay - 2 * oneHour }

Pending == [st |-> "pending"]
Skipped == [st |-> "skipped"]
Normalized(e) == [st |-> "event", ev |-> e]

NotRun == <<[key |-> <<"?">>, label |-> <<>>, events |-> <<>>]>>
NotFormatted == [fn |-> "none"]
NoSelection == [k \in {} |-> TRUE]

----------------------------------------------------------------------------
(* The normalizer as a state machine: one record of the feed, with the     *)
(* clock reading and the time zone it meets, through .filter().map()       *)

GroupingIdle == gInput = <<>> /\ gOutput = NotRun

FormatIdle == fEvents = <<>> /\ fOut = NotFormatted

\* the state of App after its first render
SessionInit ==
    /\ icsUrl = "empty"
    /\ previewEvents = <<>>
    /\ selectedGroups = NoSelection
    /\ isPreviewing = FALSE
    /\ isAdding = FALSE
    /\ isEditorOpen = FALSE
    /\ log = "none"
    /\ pendingPreviews = 0
    /\ pendingImports = <<>>
    /\ lastOp = "mount"

InitNorm ==
    /\ tz \in TimeZones
    /\ now \in ClockInstants
    /\ raw \in RawRecords
    /\ out = Pending
    /\ rerun = Pending
    /\ GroupingIdle
    /\ FormatIdle
    /\ SessionInit

\* the record fails the VEVENT filter and never reaches the map callback
FilterOut ==
    /\ out = Pending
    /\ ~IsVEvent(raw)
    /\ out' = Skipped
    /\ UNCHANGED <<tz, now, raw, rerun, gInput, gOutput, fmtVars, sessVars>>

\* the map callback runs on a record that passed the filter
Normalize ==
    /\ out = Pending
    /\ IsVEvent(raw)
    /\ out' = Normalized(NormalizeRecord(tz, now, raw))
    /\ UNCHANGED <<tz, now, raw, rerun, gInput, gOutput, fmtVars, sessVars>>

NextNorm == FilterOut \/ Normalize

SpecNorm == InitNorm /\ [][NextNorm]_vars

\* the same record goes through the map callback a second time, at the same
\* or a later clock reading
Renormalize ==
    /\ out.st = "event"
    /\ rerun = Pending
    /\ \E c \in ClockInstants :
          /\ c >= now
          /\ rerun' = [st |-> "event", at |-> c, ev |-> NormalizeRecord(tz, c, raw)]
    /\ UNCHANGED <<tz, now, raw, out, gInput, gOutput, fmtVars, sessVars>>

NextRerun == FilterOut \/ Normalize \/ Renormalize

SpecRerun == InitNorm /\ [][NextRerun]_vars

----------------------------------------------------------------------------
(* Grouping Engine: src/src/renderer/src/App.tsx *)

WhiteSpace == {" ", "\t", "\n"}

RECURSIVE trimStart(_)
trimStart(str) ==
    IF str # <<>> /\ Head(str) \in WhiteSpace THEN trimStart(Tail(str)) ELSE str

RECURSIVE trimEnd(_)
trimEnd(str) ==
    IF str # <<>> /\ str[Len(str)] \in WhiteSpace
    THEN trimEnd(SubSeq(str, 1, Len(str) - 1))
    ELSE str

\* String.prototype.trim()
trim(str) == trimEnd(trimStart(str))

UpperCase ==
    <<"A", "B", "C", "D", "E", "F", "G", "H", "I", "J", "K", "L", "M",
      "N", "O", "P", "Q", "R", "S", "T", "U", "V", "W", "X", "Y", "Z">>
LowerCase ==
    <<"a", "b", "c", "d", "e", "f", "g", "h", "i", "j", "k", "l", "m",
      "n", "o", "p", "q", "r", "s", "t", "u", "v", "w", "x", "y", "z">>

LowerChar(c) ==
    IF \E i \in 1..26 : UpperCase[i] = c
    THEN LowerCase[CHOOSE i \in 1..26 : UpperCase[i] = c]
    ELSE c

\* String.prototype.toLocaleLowerCase()
toLocaleLowerCase(str) == [i \in 1..Len(str) |-> LowerChar(str[i])]

\* variant: the key keeps the case of the title
groupKeyForSummary_caseSensitive(summary) == trim(summary)

groupKeyForSummary(summary) == toLocaleLowerCase(trim(summary))

\* const label = event.summary.trim() || '(no title)'
LabelForEvent(event) == IF trim(event.summary) = <<>> THEN NoTitle ELSE trim(event.summary)

\* variant: an event that meets an existing group replaces its events
GroupStep_overwrite(groups, event) ==
    LET label == LabelForEvent(event)
        key == groupKeyForSummary(label)
    IN  IF \E i \in 1..Len(groups) : groups[i].key = key
        THEN LET i == CHOOSE j \in 1..Len(groups) : groups[j].key = key
             IN  [groups EXCEPT ![i].events = <<event>>]
        ELSE Append(groups, [key |-> key, label |-> label, events |-> <<event>>])

\* variant: an event that meets an existing group is put in front of it
GroupStep_prepend(groups, event) ==
    LET label == LabelForEvent(event)
        key == groupKeyForSummary(label)
    IN  IF \E i \in 1..Len(groups) : groups[i].key = key
        THEN LET i == CHOOSE j \in 1..Len(groups) : groups[j].key = key
             IN  [groups EXCEPT ![i].events = <<event>> \o @]
        ELSE Append(groups, [key |-> key, label |-> label, events |-> <<event>>])

\* one iteration of the for loop; the insertion-ordered Map is the sequence
\* of its values
GroupStep(groups, event) ==
    LET label == LabelForEvent(event)
        key == groupKeyForSummary(label)
    IN  IF \E i \in 1..Len(groups) : groups[i].key = key
        THEN LET i == CHOOSE j \in 1..Len(groups) : groups[j].key = key
             IN  [groups EXCEPT ![i].events = Append(@, event)]
        ELSE Append(groups, [key |-> key, label |-> label, events |-> <<event>>])

RECURSIVE GroupLoop(_, _)
GroupLoop(groups, events) ==
    IF events = <<>> THEN groups
    ELSE GroupLoop(GroupStep(groups, Head(events)), Tail(events))

groupEventsBySummary(events) == GroupLoop(<<>>, events)

----------------------------------------------------------------------------
(* Inputs of the grouping engine *)

Standup == <<"S", "t", "a", "n", "d", "u", "p">>

GroupSummaries ==
    { <<>>, <<" ">>, Standup, <<" ">> \o toLocaleLowerCase(Standup) \o <<" ">>,
      <<"S", "T", "A", "N", "D", "U", "P">>,
      <<"(", "N", "o", " ", "T", "i", "t", "l", "e", ")", "\t">>,
      <<"R", "e", "t", "r", "o">> }

\* a timed ParsedIcsEvent as the preview call returns it
TimedEvent(summary, start) ==
    [ summary |-> summary, description |-> <<>>, location |-> <<>>,
      isAllDay |-> FALSE, startMs |-> start, endMs |-> start + oneHour,
      startYMD |-> Null, endYMD |-> Null ]

PreviewEventValues ==
    { TimedEvent(sm, t) : sm \in GroupSummaries, t \in {oneDay + 10 * oneHour, 2 * oneDay} }

RECURSIVE SeqsUpTo(_, _)
SeqsUpTo(S, n) ==
    IF n = 0 THEN {<<>>}
    ELSE LET shorter == SeqsUpTo(S, n - 1)
         IN  shorter \cup { Append(q, x) : q \in shorter, x \in S }

----------------------------------------------------------------------------
(* The grouping engine as a state machine *)

NormalizerIdle ==
    /\ tz = "fixed"
    /\ now = oneDay
    /\ raw \in OtherRecords
    /\ out = Skipped
    /\ rerun = Pending

InitGroup ==
    /\ gInput \in SeqsUpTo(PreviewEventValues, MaxEvents)
    /\ gOutput = NotRun
    /\ NormalizerIdle
    /\ FormatIdle
    /\ SessionInit

\* useMemo(() => groupEventsBySummary(previewEvents), [previewEvents])
RunGrouping ==
    /\ gOutput = NotRun
    /\ gOutput' = groupEventsBySummary(gInput)
    /\ UNCHANGED <<tz, now, raw, out, rerun, gInput, fmtVars, sessVars>>

NextGroup == RunGrouping

SpecGroup == InitGroup /\ [][NextGroup]_vars

----------------------------------------------------------------------------
(* Date Formatter: src/src/renderer/src/App.tsx *)

oneDayMs == 24 * 60 * 60 * 1000

\* day number (days since 1970-01-01) of a proleptic Gregorian date
DaysFromCivil(date) ==
    LET y == IF date[2] <= 2 THEN date[1] - 1 ELSE date[1]
        era == y \div 400
        yoe == y - era * 400
        mp == IF date[2] > 2 THEN date[2] - 3 ELSE date[2] + 9
        doy == ((153 * mp + 2) \div 5) + date[3] - 1
        doe == yoe * 365 + (yoe \div 4) - (yoe \div 100) + doy
    IN  era * 146097 + doe - 719468

\* new Date(year, month - 1, day): the instant of 00:00 local time of a date
LocalDate(zone, date) ==
    LET wall == (DaysFromCivil(date) - OriginDay) * oneDay
    IN  CHOOSE t \in {wall - 2 * oneHour, wall - 3 * oneHour} : LocalMs(zone, t) = wall

\* Date.toDateString() and Date.toLocaleDateString(): the local calendar date
toLocaleDateString(zone, t) == ymd(zone, t)

\* Date.toLocaleString(): the local calendar date and time of day
toLocaleString(zone, t) ==
    ymd(zone, t) \o <<getHours(zone, t), getMinutes(zone, t), getSeconds(zone, t)>>

\* the texts the formatters return, by template and substituted parts
Text(shape, n, a, b) == [shape |-> shape, n |-> n, a |-> a, b |-> b]

eventStartTime(zone, event) ==
    IF event.isAllDay /\ event.startYMD # Null
    THEN LocalDate(zone, event.startYMD)
    ELSE event.startMs

formatEventDate(zone, event) ==
    IF event.isAllDay /\ event.startYMD # Null /\ event.endYMD # Null
    THEN LET start == LocalDate(zone, event.startYMD)
             endExclusive == LocalDate(zone, event.endYMD)
             endInclusive == endExclusive - oneDayMs
         IN  IF toLocaleDateString(zone, start) = toLocaleDateString(zone, endInclusive)
             THEN Text("allDay", 0, toLocaleDateString(zone, start), <<>>)
             ELSE Text("allDayRange", 0, toLocaleDateString(zone, start),
                       toLocaleDateString(zone, endInclusive))
    ELSE Text("timed", 0, toLocaleString(zone, event.startMs),
              toLocaleString(zone, event.endMs))

\* the for loop over the events: <<minStart, maxStart>>, starting from
\* <<+Infinity, -Infinity>>
RECURSIVE StartRange(_, _, _)
StartRange(zone, events, acc) ==
    IF events = <<>> THEN acc
    ELSE LET start == eventStartTime(zone, Head(events))
             lo == IF acc = <<>> \/ start < acc[1] THEN start ELSE acc[1]
             hi == IF acc = <<>> \/ start > acc[2] THEN start ELSE acc[2]
         IN  StartRange(zone, Tail(events), <<lo, hi>>)

\* variant: the range runs from the first event to the last one
formatGroupDateRange_firstLast(zone, events) ==
    IF Len(events) = 1 THEN formatEventDate(zone, events[1])
    ELSE LET minDate == toLocaleDateString(zone, eventStartTime(zone, events[1]))
             maxDate == toLocaleDateString(zone, eventStartTime(zone, events[Len(events)]))
         IN  IF minDate = maxDate
             THEN Text("occurrencesOn", Len(events), minDate, <<>>)
             ELSE Text("occurrencesFromTo", Len(events), minDate, maxDate)

formatGroupDateRange(zone, events) ==
    IF Len(events) = 1 THEN formatEventDate(zone, events[1])
    ELSE LET range == StartRange(zone, events, <<>>)
             minDate == toLocaleDateString(zone, range[1])
             maxDate == toLocaleDateString(zone, range[2])
         IN  IF minDate = maxDate
             THEN Text("occurrencesOn", Len(events), minDate, <<>>)
             ELSE Text("occurrencesFromTo", Len(events), minDate, maxDate)

----------------------------------------------------------------------------
(* Inputs of the formatter *)

\* an all-day ParsedIcsEvent on local day d, endYMD being span days later
AllDayEvent(summary, d, span) ==
    [ summary |-> summary, description |-> <<>>, location |-> <<>>,
      isAllDay |-> TRUE,
      startMs |-> d * oneDay + 10 * oneHour,
      endMs |-> (d + span) * oneDay + 10 * oneHour,
      startYMD |-> CivilFromDays(OriginDay + d),
      endYMD |-> CivilFromDays(OriginDay + d + span) ]

FormatEventValues ==
    { AllDayEvent(Standup, d, span) : d \in 1..MaxDay, span \in 0..2 }
    \cup { TimedEvent(Standup, d * oneDay + o) :
             d \in 1..MaxDay, o \in {0 - 2 * oneHour - 1000, 10 * oneHour} }

----------------------------------------------------------------------------
(* The formatter as a state machine *)

InitFormat ==
    /\ tz \in TimeZones
    /\ now = oneDay
    /\ raw \in OtherRecords
    /\ out = Skipped
    /\ rerun = Pending
    /\ GroupingIdle
    /\ fEvents \in SeqsUpTo(FormatEventValues, MaxEvents) \ {<<>>}
    /\ fOut = NotFormatted
    /\ SessionInit

RunFormatEventDate ==
    /\ fOut = NotFormatted
    /\ fOut' = [fn |-> "formatEventDate", text |-> formatEventDate(tz, fEvents[1])]
    /\ UNCHANGED <<tz, now, raw, out, rerun, gInput, gOutput, fEvents, sessVars>>

\* <div className="event-meta">{formatGroupDateRange(group.events)}</div>
RunFormatGroupDateRange ==
    /\ fOut = NotFormatted
    /\ fOut' = [fn |-> "formatGroupDateRange", text |-> formatGroupDateRange(tz, fEvents)]
    /\ UNCHANGED <<tz, now, raw, out, rerun, gInput, gOutput, fEvents, sessVars>>

NextFormat == RunFormatEventDate \/ RunFormatGroupDateRange

SpecFormat == InitFormat /\ [][NextFormat]_vars

----------------------------------------------------------------------------
(* Renderer session: the App component of the renderer (App.tsx).          *)
(* React flushes the state updates of a handler before the next user      *)
(* event, and those made after an await before anything else runs, so a    *)
(* handler up to its await, and its continuation, are one step each.       *)
(* The preload bridge (window.electron) is taken to be present.            *)

\* useMemo(() => groupEventsBySummary(previewEvents), [previewEvents])
eventGroups == groupEventsBySummary(previewEvents)

hasPreview == Len(eventGroups) > 0

GroupKeys(groups) == { groups[i].key : i \in 1..Len(groups) }

\* selectedGroups[key] ?? false
IsSelected(selection, key) == IF key \in DOMAIN selection THEN selection[key] ELSE FALSE

\* variant: every group is counted, selected or not
GroupCount_ignoresSelection(group, selection) == Len(group.events)

\* the reduce callback of selectedEventCount, as an increment of count
GroupCount(group, selection) ==
    IF IsSelected(selection, group.key) THEN Len(group.events) ELSE 0

\* eventGroups.reduce(..., 0)
RECURSIVE CountSelected(_, _)
CountSelected(groups, selection) ==
    IF groups = <<>> THEN 0
    ELSE GroupCount(Head(groups), selection) + CountSelected(Tail(groups), selection)

selectedEventCount == CountSelected(eventGroups, selectedGroups)

\* variant: the filter looks the trimmed, lower-cased summary up without
\* replacing an empty one by '(no title)'
SelectedEvents_rawKey(events, selection) ==
    LET Chosen(event) == IsSelected(selection, groupKeyForSummary(event.summary))
    IN  SelectSeq(events, Chosen)

\* previewEvents.filter(...) of addSelectedEvents
SelectedEvents(events, selection) ==
    LET Chosen(event) == IsSelected(selection, groupKeyForSummary(LabelForEvent(event)))
    IN  SelectSeq(events, Chosen)

\* variant: the initial selection leaves every group unselected
InitialSelection_unselected(groups) == [k \in GroupKeys(groups) |-> FALSE]

\* the initialSelection built by runPreview
InitialSelection(groups) == [k \in GroupKeys(groups) |-> TRUE]

\* variant: the value is written for the first group only
SelectAllValue_firstOnly(groups, value) ==
    [k \in GroupKeys(groups) |-> IF k = groups[1].key THEN value ELSE FALSE]

\* Object.fromEntries(eventGroups.map((group) => [group.key, value]))
SelectAllValue(groups, value) == [k \in GroupKeys(groups) |-> value]

\* variant: the toggled key replaces the whole selection
ToggledSelection_onlyKey(selection, key) ==
    [k \in {key} |-> ~IsSelected(selection, key)]

\* { ...prev, [key]: !(prev[key] ?? false) }
ToggledSelection(selection, key) ==
    [k \in (DOMAIN selection) \cup {key} |->
        IF k = key THEN ~IsSelected(selection, key) ELSE selection[k]]

\* variant: the Import button is disabled by a running preview only
ImportButtonDisabled_previewOnly == isPreviewing

\* disabled={isPreviewing || isAdding} of the Import And Review button
ImportButtonDisabled == isPreviewing \/ isAdding

\* disabled={isAdding || isPreviewing || selectedEventCount === 0}
AddButtonDisabled == isAdding \/ isPreviewing \/ selectedEventCount = 0

\* disabled={isAdding || isPreviewing} of Done, Cancel, Select all, Clear all
EditorToolsDisabled == isAdding \/ isPreviewing

\* variant: an empty batch is sent on to the sink
EmptyBatchRefused_never(events) == FALSE

\* if (events.length === 0) of addSelectedEvents
EmptyBatchRefused(events) == Len(events) = 0

SessionSummaries == { <<>>, <<"A", "m">>, <<" ", "a", "m">> }

SessionEventValues == { TimedEvent(sm, oneDay + 10 * oneHour) : sm \in SessionSummaries }

\* the event arrays a previewCalendar call can resolve with
PreviewResults == SeqsUpTo(SessionEventValues, MaxPreview)

InitSession ==
    /\ SessionInit
    /\ NormalizerIdle
    /\ GroupingIdle
    /\ FormatIdle

othersIdle == <<tz, now, raw, out, rerun, gInput, gOutput, fmtVars>>

\* onChange of the iCal URL field
SetIcsUrl ==
    /\ \E v \in {"empty", "url"} : v # icsUrl /\ icsUrl' = v
    /\ lastOp' = "setIcsUrl"
    /\ UNCHANGED <<previewEvents, selectedGroups, isPreviewing, isAdding, isEditorOpen,
                   log, pendingPreviews, pendingImports>>
    /\ UNCHANGED othersIdle

\* runPreview up to its await
runPreview ==
    IF icsUrl = "empty"
    THEN /\ log' = "pasteUrlFirst"
         /\ lastOp' = "runPreviewRefused"
         /\ UNCHANGED <<icsUrl, previewEvents, selectedGroups, isPreviewing, isAdding,
                        isEditorOpen, pendingPreviews, pendingImports>>
    ELSE /\ pendingPreviews < MaxInFlight
         /\ isPreviewing' = TRUE
         /\ log' = "importingLink"
         /\ pendingPreviews' = pendingPreviews + 1
         /\ lastOp' = "runPreview"
         /\ UNCHANGED <<icsUrl, previewEvents, selectedGroups, isAdding, isEditorOpen,
                        pendingImports>>

\* click on Import And Review
ClickImport ==
    /\ ~ImportButtonDisabled
    /\ runPreview
    /\ UNCHANGED othersIdle

\* previewCalendar resolves: the try block after the await, then finally
PreviewResolves ==
    /\ pendingPreviews > 0
    /\ \E events \in PreviewResults :
          /\ previewEvents' = events
          /\ selectedGroups' = InitialSelection(groupEventsBySummary(events))
          /\ IF Len(events) = 0
             THEN isEditorOpen' = FALSE /\ log' = "noEventsFound"
             ELSE isEditorOpen' = TRUE /\ log' = "previewReady"
    /\ isPreviewing' = FALSE
    /\ pendingPreviews' = pendingPreviews - 1
    /\ lastOp' = "previewResolved"
    /\ UNCHANGED <<icsUrl, isAdding, pendingImports>>
    /\ UNCHANGED othersIdle

\* variant: the catch block leaves the earlier preview and selection in place
PreviewRejects_keepsPreview ==
    /\ pendingPreviews > 0
    /\ isEditorOpen' = FALSE
    /\ log' = "error"
    /\ isPreviewing' = FALSE
    /\ pendingPreviews' = pendingPreviews - 1
    /\ lastOp' = "previewRejected"
    /\ UNCHANGED <<icsUrl, previewEvents, selectedGroups, isAdding, pendingImports>>
    /\ UNCHANGED othersIdle

\* previewCalendar rejects: the catch block, then finally
PreviewRejects ==
    /\ pendingPreviews > 0
    /\ isEditorOpen' = FALSE
    /\ previewEvents' = <<>>
    /\ selectedGroups' = NoSelection
    /\ log' = "error"
    /\ isPreviewing' = FALSE
    /\ pendingPreviews' = pendingPreviews - 1
    /\ lastOp' = "previewRejected"
    /\ UNCHANGED <<icsUrl, isAdding, pendingImports>>
    /\ UNCHANGED othersIdle

\* addSelectedEvents up to its await
addSelectedEvents ==
    LET events == SelectedEvents(previewEvents, selectedGroups)
    IN  IF EmptyBatchRefused(events)
        THEN /\ log' = "selectAtLeastOne"
             /\ lastOp' = "addSelectedEventsRefused"
             /\ UNCHANGED <<icsUrl, previewEvents, selectedGroups, isPreviewing, isAdding,
                            isEditorOpen, pendingPreviews, pendingImports>>
        ELSE /\ Len(pendingImports) < MaxInFlight
             /\ isAdding' = TRUE
             /\ log' = "adding"
             /\ pendingImports' = Append(pendingImports, events)
             /\ lastOp' = "addSelectedEvents"
             /\ UNCHANGED <<icsUrl, previewEvents, selectedGroups, isPreviewing,
                            isEditorOpen, pendingPreviews>>

\* click on Add Selected to iCalendar, a button of the editor
ClickAddSelected ==
    /\ isEditorOpen
    /\ ~AddButtonDisabled
    /\ addSelectedEvents
    /\ UNCHANGED othersIdle

\* variant: a successful import also discards the preview and the selection
ImportResolves_clearsPreview ==
    /\ pendingImports # <<>>
    /\ pendingImports' = Tail(pendingImports)
    /\ isEditorOpen' = FALSE
    /\ previewEvents' = <<>>
    /\ selectedGroups' = NoSelection
    /\ log' = "done"
    /\ isAdding' = FALSE
    /\ lastOp' = "importResolved"
    /\ UNCHANGED <<icsUrl, isPreviewing, pendingPreviews>>
    /\ UNCHANGED othersIdle

\* importCalendar resolves: the try block after the await, then finally
ImportResolves ==
    /\ pendingImports # <<>>
    /\ pendingImports' = Tail(pendingImports)
    /\ isEditorOpen' = FALSE
    /\ log' = "done"
    /\ isAdding' = FALSE
    /\ lastOp' = "importResolved"
    /\ UNCHANGED <<icsUrl, previewEvents, selectedGroups, isPreviewing, pendingPreviews>>
    /\ UNCHANGED othersIdle

\* variant: the catch block runs without the finally block
ImportRejects_staysAdding ==
    /\ pendingImports # <<>>
    /\ pendingImports' = Tail(pendingImports)
    /\ log' = "error"
    /\ lastOp' = "importRejected"
    /\ UNCHANGED <<icsUrl, previewEvents, selectedGroups, isPreviewing, isAdding,
                   isEditorOpen, pendingPreviews>>
    /\ UNCHANGED othersIdle

\* importCalendar rejects: the catch block, then finally
ImportRejects ==
    /\ pendingImports # <<>>
    /\ pendingImports' = Tail(pendingImports)
    /\ log' = "error"
    /\ isAdding' = FALSE
    /\ lastOp' = "importRejected"
    /\ UNCHANGED <<icsUrl, previewEvents, selectedGroups, isPreviewing, isEditorOpen,
                   pendingPreviews>>
    /\ UNCHANGED othersIdle

\* onChange of the checkbox of a group shown in the editor
ToggleGroup ==
    /\ isEditorOpen
    /\ hasPreview
    /\ \E i \in 1..Len(eventGroups) :
          selectedGroups' = ToggledSelection(selectedGroups, eventGroups[i].key)
    /\ lastOp' = "toggleGroup"
    /\ UNCHANGED <<icsUrl, previewEvents, isPreviewing, isAdding, isEditorOpen, log,
                   pendingPreviews, pendingImports>>
    /\ UNCHANGED othersIdle

\* click on Select all
SelectAll ==
    /\ isEditorOpen
    /\ ~EditorToolsDisabled
    /\ selectedGroups' = SelectAllValue(eventGroups, TRUE)
    /\ lastOp' = "selectAll"
    /\ UNCHANGED <<icsUrl, previewEvents, isPreviewing, isAdding, isEditorOpen, log,
                   pendingPreviews, pendingImports>>
    /\ UNCHANGED othersIdle

\* click on Clear all
ClearAll ==
    /\ isEditorOpen
    /\ ~EditorToolsDisabled
    /\ selectedGroups' = SelectAllValue(eventGroups, FALSE)
    /\ lastOp' = "clearAll"
    /\ UNCHANGED <<icsUrl, previewEvents, isPreviewing, isAdding, isEditorOpen, log,
                   pendingPreviews, pendingImports>>
    /\ UNCHANGED othersIdle

\* Done, Cancel, a click on the overlay, or the Escape key
CloseEditor ==
    /\ isEditorOpen
    /\ ~isAdding /\ ~isPreviewing
    /\ isEditorOpen' = FALSE
    /\ lastOp' = "closeEditor"
    /\ UNCHANGED <<icsUrl, previewEvents, selectedGroups, isPreviewing, isAdding, log,
                   pendingPreviews, pendingImports>>
    /\ UNCHANGED othersIdle

NextSession ==
    \/ SetIcsUrl
    \/ ClickImport
    \/ PreviewResolves
    \/ PreviewRejects
    \/ ClickAddSelected
    \/ ImportResolves
    \/ ImportRejects
    \/ ToggleGroup
    \/ SelectAll
    \/ ClearAll
    \/ CloseEditor

SpecSession == InitSession /\ [][NextSession]_vars

\* the session when every call made to the main process settles: an awaited
\* previewCalendar or importCalendar promise is eventually resolved or rejected
SpecSessionLive ==
    /\ SpecSession
    /\ WF_vars(PreviewResolves \/ PreviewRejects)
    /\ WF_vars(ImportResolves \/ ImportRejects)

\* addSelectedEvents run on its own while nothing is awaited, as a caller
\* that does not go through the button's disabled attribute runs it
CallAddSelectedEvents ==
    /\ ~isAdding /\ ~isPreviewing
    /\ addSelectedEvents
    /\ UNCHANGED othersIdle

NextHandlers == NextSession \/ CallAddSelectedEvents

SpecHandlers == InitSession /\ [][NextHandlers]_vars

----------------------------------------------------------------------------
(* Properties of the normalizer, checked under SpecNorm *)

\* C1: every normalized event satisfies endMs >= startMs, whatever the
\* record's start and end are.
C1_EndNotBeforeStart ==
    out.st = "event" => out.ev.endMs >= out.ev.startMs

\* C2: for every normalized all-day event the local date endYMD is strictly
\* after the local date startYMD.
C2_AllDayEndDateAfterStartDate ==
    (out.st = "event" /\ out.ev.isAllDay) =>
        LET a == out.ev.startYMD
            b == out.ev.endYMD
        IN  \/ a[1] < b[1]
            \/ a[1] = b[1] /\ a[2] < b[2]
            \/ a[1] = b[1] /\ a[2] = b[2] /\ a[3] < b[3]

\* C3: isAllDay is true iff startYMD and endYMD are both non-null, and a
\* timed event has both of them null.
C3_YmdIffAllDay ==
    out.st = "event" =>
        /\ out.ev.isAllDay <=> (out.ev.startYMD # Null /\ out.ev.endYMD # Null)
        /\ ~out.ev.isAllDay => (out.ev.startYMD = Null /\ out.ev.endYMD = Null)

C3_Witness ==
    /\ out.st = "event"
    /\ ~out.ev.isAllDay
    /\ InstanceOfDate(raw.start) /\ InstanceOfDate(raw.end)
    /\ out.ev.startYMD = Null

\* C4: a record with datetype = "date" normalizes to an all-day event with
\* both YMD fields set, whatever its start and end are.
C4_MarkerMeansAllDay ==
    (out.st = "event" /\ raw.datetype = "date") =>
        /\ out.ev.isAllDay
        /\ out.ev.startYMD # Null
        /\ out.ev.endYMD # Null

C4_Witness ==
    /\ out.st = "event"
    /\ raw.datetype = "date"
    /\ ~InstanceOfDate(raw.start)
    /\ raw.end.t = "string"
    /\ out.ev.isAllDay
    /\ Len(out.ev.startYMD) = 3

\* C5: without the marker, a record is all-day exactly when start and end
\* are both dates at local midnight (no hour, minute or second) and end
\* minus start is a non-negative multiple of 24 hours; otherwise it is
\* timed.
C5_MidnightHeuristic ==
    (out.st = "event" /\ raw.datetype # "date") =>
        LET secondOfDay(t) == ((t + TzOffset(tz, t)) \div 1000) % 86400
        IN  out.ev.isAllDay <=>
                /\ raw.start.t = "date"
                /\ raw.end.t = "date"
                /\ secondOfDay(raw.start.n) = 0
                /\ secondOfDay(raw.end.n) = 0
                /\ raw.end.n >= raw.start.n
                /\ \E k \in 0..(MaxDay + 1) : raw.end.n - raw.start.n = k * 24 * oneHour

C5_Witness ==
    /\ out.st = "event"
    /\ raw.datetype # "date"
    /\ raw.start.t = "date"
    /\ raw.end = raw.start
    /\ out.ev.isAllDay

\* C6: without a valid end the end is start + 24h for an all-day record and
\* start + 1h for a timed one; an all-day record whose supplied end is not
\* after the start gets start + 24h; otherwise endMs is the supplied end.
\* start is the supplied start, or the current time without a valid start.
C6_EndResolution ==
    out.st = "event" =>
        LET start == IF raw.start.t = "date" THEN raw.start.n ELSE now
        IN  /\ out.ev.startMs = start
            /\ raw.end.t # "date" /\ out.ev.isAllDay => out.ev.endMs = start + 24 * oneHour
            /\ raw.end.t # "date" /\ ~out.ev.isAllDay => out.ev.endMs = start + oneHour
            /\ raw.end.t = "date" /\ out.ev.isAllDay /\ raw.end.n <= start
                  => out.ev.endMs = start + 24 * oneHour
            /\ raw.end.t = "date" /\ ~(out.ev.isAllDay /\ raw.end.n <= start)
                  => out.ev.endMs = raw.end.n

C6_Witness ==
    /\ out.st = "event"
    /\ out.ev.isAllDay
    /\ raw.start.t # "date"
    /\ raw.end.t = "date"
    /\ raw.end.n < now
    /\ out.ev.endMs = now + oneDay

\* C7: the summary is "(no title)" when the raw summary is absent or the
\* empty string, and the raw summary as a string otherwise.
C7_SummaryDefault ==
    out.st = "event" =>
        out.ev.summary =
            IF raw.summary.t \in {"undefined", "null"} \/ raw.summary = JsStr(<<>>)
            THEN NoTitle
            ELSE String(raw.summary)

\* C8 as stated: a record without a summary and without an end instant
\* normalizes to "(no title)", timed, ending one hour after its start.
C8_NoSummaryNoEnd ==
    (out.st = "event" /\ raw.summary.t \in {"undefined", "null"} /\ raw.end.t # "date") =>
        /\ out.ev.summary = NoTitle
        /\ ~out.ev.isAllDay
        /\ out.ev.endMs = out.ev.startMs + oneHour

\* C8 amended: a record without the date-only marker, without a summary and
\* without an end instant normalizes to "(no title)", timed, ending one hour
\* after its start.
C8_NoSummaryNoEndNoMarker ==
    (/\ out.st = "event"
     /\ raw.datetype # "date"
     /\ raw.summary.t \in {"undefined", "null"}
     /\ raw.end.t # "date") =>
        /\ out.ev.summary = NoTitle
        /\ ~out.ev.isAllDay
        /\ out.ev.endMs = out.ev.startMs + oneHour

C8_Witness ==
    /\ out.st = "event"
    /\ raw.datetype = "date-time"
    /\ raw.summary = Undefined
    /\ raw.end = Undefined
    /\ raw.start.t = "date"
    /\ out.ev.endMs = raw.start.n + oneHour

----------------------------------------------------------------------------
(* Properties of the grouping engine, checked under SpecGroup *)

\* C9: the groups partition the input: every event occurrence is in exactly
\* one group, no group is empty, the group sizes add up to the input length
\* and no two groups share a key.
C9_GroupsPartitionInput ==
    gOutput # NotRun =>
        LET Count(e, q) == Cardinality({ i \in 1..Len(q) : q[i] = e })
            RECURSIVE Total(_)
            Total(k) == IF k = 0 THEN 0 ELSE Len(gOutput[k].events) + Total(k - 1)
            Holders(e) == { g \in 1..Len(gOutput) : Count(e, gOutput[g].events) > 0 }
        IN  /\ \A g \in 1..Len(gOutput) : Len(gOutput[g].events) > 0
            /\ Total(Len(gOutput)) = Len(gInput)
            /\ \A g, h \in 1..Len(gOutput) : gOutput[g].key = gOutput[h].key => g = h
            /\ \A i \in 1..Len(gInput) :
                  /\ Cardinality(Holders(gInput[i])) = 1
                  /\ \A g \in Holders(gInput[i]) :
                        Count(gInput[i], gOutput[g].events) = Count(gInput[i], gInput)
            /\ \A g \in 1..Len(gOutput) : \A j \in 1..Len(gOutput[g].events) :
                  Count(gOutput[g].events[j], gInput) > 0

C9_Witness ==
    /\ gOutput # NotRun
    /\ Len(gInput) = 3
    /\ Len(gOutput) = 2
    /\ gInput[1] = gInput[3]
    /\ Len(gOutput[1].events) = 2

\* C10: two events share a group iff their summaries are equal after
\* trimming, replacing an empty result by "(no title)" and lower-casing; a
\* group's key is that string and its label the trimmed summary (or
\* "(no title)") of the first event with that key.
C10_GroupingKey ==
    gOutput # NotRun =>
        LET IsBlank(c) == c \in WhiteSpace
            Trimmed(str) ==
                LET inked == { i \in 1..Len(str) : ~IsBlank(str[i]) }
                IN  IF inked = {} THEN <<>>
                    ELSE SubSeq(str, CHOOSE a \in inked : \A i \in inked : a <= i,
                                     CHOOSE b \in inked : \A i \in inked : b >= i)
            Title(str) == IF Trimmed(str) = <<>> THEN NoTitle ELSE Trimmed(str)
            Folded(str) == LET u == Title(str) IN [i \in 1..Len(u) |-> LowerChar(u[i])]
            Together(e, f) ==
                \E g \in 1..Len(gOutput) :
                    /\ \E j \in 1..Len(gOutput[g].events) : gOutput[g].events[j] = e
                    /\ \E j \in 1..Len(gOutput[g].events) : gOutput[g].events[j] = f
            FirstWith(k) == CHOOSE i \in 1..Len(gInput) :
                    /\ Folded(gInput[i].summary) = k
                    /\ \A j \in 1..(i - 1) : Folded(gInput[j].summary) # k
        IN  /\ \A i, j \in 1..Len(gInput) :
                  Together(gInput[i], gInput[j]) <=>
                      Folded(gInput[i].summary) = Folded(gInput[j].summary)
            /\ \A g \in 1..Len(gOutput) :
                  /\ \A j \in 1..Len(gOutput[g].events) :
                        gOutput[g].key = Folded(gOutput[g].events[j].summary)
                  /\ gOutput[g].label = Title(gInput[FirstWith(gOutput[g].key)].summary)

C10_Witness ==
    /\ gOutput # NotRun
    /\ Len(gInput) = 3
    /\ gInput[1].summary = <<" ", "s", "t", "a", "n", "d", "u", "p", " ">>
    /\ gInput[2].summary = <<"S", "t", "a", "n", "d", "u", "p">>
    /\ gInput[3].summary = <<"S", "T", "A", "N", "D", "U", "P">>
    /\ Len(gOutput) = 1
    /\ gOutput[1].key = <<"s", "t", "a", "n", "d", "u", "p">>
    /\ gOutput[1].label = <<"s", "t", "a", "n", "d", "u", "p">>

\* C11: the groups come in the order in which their keys first occur in the
\* input, and inside a group the events keep their relative input order.
C11_FirstSeenOrder ==
    gOutput # NotRun =>
        LET Members(g) == { gOutput[g].events[j] : j \in 1..Len(gOutput[g].events) }
            FirstSeen(g) ==
                CHOOSE i \in 1..Len(gInput) :
                    /\ gInput[i] \in Members(g)
                    /\ \A j \in 1..(i - 1) : gInput[j] \notin Members(g)
        IN  /\ \A g, h \in 1..Len(gOutput) : g < h => FirstSeen(g) < FirstSeen(h)
            /\ \A g \in 1..Len(gOutput) :
                  LET InGroup(e) == e \in Members(g)
                  IN  gOutput[g].events = SelectSeq(gInput, InGroup)

C11_Witness ==
    /\ gOutput # NotRun
    /\ Len(gInput) = 3
    /\ Len(gOutput) = 2
    /\ gInput[1].summary = <<"R", "e", "t", "r", "o">>
    /\ gInput[2].summary = Standup
    /\ gInput[3].summary = <<"R", "e", "t", "r", "o">>
    /\ gInput[1] # gInput[3]
    /\ gOutput[1].events = <<gInput[1], gInput[3]>>
    /\ gOutput[2].events = <<gInput[2]>>

----------------------------------------------------------------------------
(* Two runs of the normalizer, checked under SpecRerun *)

\* C17 as stated: two runs of the normalizer on the same raw record yield
\* equal events in every field, whatever the record's start and whatever the
\* time of each run.
C17_Deterministic ==
    rerun.st = "event" => rerun.ev = out.ev

\* C17 amended: two runs on the same raw record yield equal events in every
\* field when the record's start is a Date or both runs read the same clock
\* value; in every case they agree on summary, description, location and
\* isAllDay.
C17_DeterministicGivenStart ==
    rerun.st = "event" =>
        /\ (raw.start.t = "date" \/ rerun.at = now) => rerun.ev = out.ev
        /\ rerun.ev.summary = out.ev.summary
        /\ rerun.ev.description = out.ev.description
        /\ rerun.ev.location = out.ev.location
        /\ rerun.ev.isAllDay = out.ev.isAllDay

C17_Witness ==
    /\ rerun.st = "event"
    /\ rerun.at > now
    /\ raw.start.t = "date"
    /\ raw.end.t # "date"
    /\ rerun.ev = out.ev
    /\ rerun.ev.endMs = raw.start.n + oneHour

----------------------------------------------------------------------------
(* Properties of the date formatter, checked under SpecFormat *)

\* C15: for an all-day event formatEventDate renders as last day the
\* calendar day before endYMD, whatever the length of that day; it renders
\* the start date alone when that last day is startYMD, and start and last
\* day otherwise.
C15_InclusiveLastDay ==
    (fOut.fn = "formatEventDate" /\ fEvents[1].isAllDay) =>
        LET first == fEvents[1].startYMD
            last == CivilFromDays(DaysFromCivil(fEvents[1].endYMD) - 1)
        IN  fOut.text = IF last = first
                        THEN Text("allDay", 0, first, <<>>)
                        ELSE Text("allDayRange", 0, first, last)

\* C16: formatGroupDateRange of one event is formatEventDate of that event;
\* of n >= 2 events it reports n occurrences with the dates of the least and
\* the greatest effective start (local midnight of startYMD for an all-day
\* event, startMs for a timed one), as one date when the two dates are equal.
C16_GroupDateRange ==
    fOut.fn = "formatGroupDateRange" =>
        LET n == Len(fEvents)
            Midnights == UNION { {q * oneDay - 2 * oneHour, q * oneDay - 3 * oneHour} :
                                 q \in 0..(MaxDay + 3) }
            Effective(e) ==
                IF e.isAllDay
                THEN CHOOSE t \in Midnights :
                        /\ ymd(tz, t) = e.startYMD
                        /\ ymd(tz, t - 1) # e.startYMD
                ELSE e.startMs
            Starts == { Effective(fEvents[i]) : i \in 1..n }
            least == CHOOSE t \in Starts : \A u \in Starts : t <= u
            greatest == CHOOSE t \in Starts : \A u \in Starts : t >= u
        IN  IF n = 1 THEN fOut.text = formatEventDate(tz, fEvents[1])
            ELSE fOut.text =
                    IF ymd(tz, least) = ymd(tz, greatest)
                    THEN Text("occurrencesOn", n, ymd(tz, least), <<>>)
                    ELSE Text("occurrencesFromTo", n, ymd(tz, least), ymd(tz, greatest))

C16_Witness ==
    /\ fOut.fn = "formatGroupDateRange"
    /\ Len(fEvents) = 3
    /\ fEvents[1].isAllDay /\ fEvents[1].startYMD = <<2024, 2, 29>>
    /\ ~fEvents[2].isAllDay /\ fEvents[2].startMs = oneDay - 2 * oneHour - 1000
    /\ fEvents[3].isAllDay /\ fEvents[3].startYMD = <<2024, 3, 1>>
    /\ fOut.text = Text("occurrencesFromTo", 3, <<2024, 2, 27>>, <<2024, 3, 1>>)

----------------------------------------------------------------------------
(* Properties of the renderer session, checked under SpecSession and      *)
(* SpecHandlers                                                           *)

\* the group key of a preview event, derived as grouping derives it
KeyOfEvent(event) == groupKeyForSummary(LabelForEvent(event))

KeysOfPreview == { KeyOfEvent(previewEvents[i]) : i \in 1..Len(previewEvents) }

\* the positions of previewEvents whose key is present in the selection and true
SelectedPositions ==
    { i \in 1..Len(previewEvents) :
        /\ KeyOfEvent(previewEvents[i]) \in DOMAIN selectedGroups
        /\ selectedGroups[KeyOfEvent(previewEvents[i])] = TRUE }

\* batch lists previewEvents at the selected positions, in increasing position
IsSelectedSubsequence(batch) ==
    /\ Len(batch) = Cardinality(SelectedPositions)
    /\ \A k \in 1..Len(batch) :
          \E i \in SelectedPositions :
             /\ Cardinality({ j \in SelectedPositions : j < i }) = k - 1
             /\ batch[k] = previewEvents[i]

\* C12: when addSelectedEvents has just run, the batch it handed to the sink
\* is exactly the events of previewEvents whose group key maps to true in
\* selectedGroups, in previewEvents order (events whose key is absent or maps
\* to false are left out); and when it has just refused, no event is selected.
C12_SelectionFilter ==
    /\ lastOp = "addSelectedEvents" =>
          /\ pendingImports # <<>>
          /\ IsSelectedSubsequence(pendingImports[Len(pendingImports)])
    /\ lastOp = "addSelectedEventsRefused" => SelectedPositions = {}

\* addSelectedEvents has just sent two of three preview events, the one
\* left out standing between them, with an untitled event among those sent
C12_Witness ==
    /\ lastOp = "addSelectedEvents"
    /\ Len(previewEvents) = 3
    /\ SelectedPositions = {1, 3}
    /\ Len(pendingImports) = 1
    /\ pendingImports[1] = <<previewEvents[1], previewEvents[3]>>
    /\ previewEvents[1].summary = <<>>

\* C13: right after Select all the selection filter yields every event of
\* previewEvents in the original order, and right after Clear all it yields
\* the empty sequence.
C13_SelectAllClearAll ==
    /\ lastOp = "selectAll" => SelectedEvents(previewEvents, selectedGroups) = previewEvents
    /\ lastOp = "clearAll" => SelectedEvents(previewEvents, selectedGroups) = <<>>

\* Select all has just run on a preview of three events in more than one group
C13_Witness ==
    /\ lastOp = "selectAll"
    /\ Len(previewEvents) = 3
    /\ Cardinality(KeysOfPreview) >= 2
    /\ SelectedEvents(previewEvents, selectedGroups) = previewEvents

\* C14: right after a preview call resolves, selectedGroups has exactly the
\* group keys of the new previewEvents and maps each of them to true.
C14_FreshSelection ==
    lastOp = "previewResolved" =>
        /\ DOMAIN selectedGroups = KeysOfPreview
        /\ \A k \in DOMAIN selectedGroups : selectedGroups[k] = TRUE

\* a preview has just resolved with events of at least two groups
C14_Witness ==
    /\ lastOp = "previewResolved"
    /\ Cardinality(KeysOfPreview) >= 2
    /\ DOMAIN selectedGroups = KeysOfPreview

\* C18: at most one external call is awaited at any time: isPreviewing and
\* isAdding are never both true, at most one preview call and at most one
\* import call is outstanding, and never one of each.
C18_AtMostOneInFlight ==
    /\ ~(isPreviewing /\ isAdding)
    /\ pendingPreviews <= 1
    /\ Len(pendingImports) <= 1
    /\ pendingPreviews + Len(pendingImports) <= 1
    /\ isPreviewing <=> pendingPreviews = 1
    /\ isAdding <=> Len(pendingImports) = 1

\* an import is awaited and the user has just toggled a group meanwhile
C18_Witness ==
    /\ isAdding
    /\ Len(pendingImports) = 1
    /\ lastOp = "toggleGroup"

\* C19: when addSelectedEvents has just refused, nothing is awaited from the
\* sink and isAdding is false; when it has just run with no event selected
\* it has refused; and every batch handed to the sink is non-empty.
C19_EmptyBatchRefused ==
    /\ lastOp = "addSelectedEventsRefused" => (~isAdding /\ pendingImports = <<>>)
    /\ (lastOp = "addSelectedEvents" /\ SelectedPositions = {}) => FALSE
    /\ \A i \in 1..Len(pendingImports) : Len(pendingImports[i]) > 0

\* addSelectedEvents has just refused on a preview whose groups are all cleared
C19_Witness ==
    /\ lastOp = "addSelectedEventsRefused"
    /\ Len(previewEvents) > 0
    /\ SelectedPositions = {}
    /\ ~isAdding
    /\ pendingImports = <<>>

\* C20: the keys of selectedGroups are always group keys of the current
\* previewEvents, and are exactly those keys while previewEvents is non-empty.
C20_SelectionKeysOfPreview ==
    /\ DOMAIN selectedGroups \subseteq KeysOfPreview
    /\ Len(previewEvents) > 0 => DOMAIN selectedGroups = KeysOfPreview

\* a group has just been toggled off in a preview of at least two groups
C20_Witness ==
    /\ lastOp = "toggleGroup"
    /\ Cardinality(KeysOfPreview) >= 2
    /\ DOMAIN selectedGroups = KeysOfPreview
    /\ \E k \in DOMAIN selectedGroups : selectedGroups[k] = FALSE

\* C21: selectedEventCount always equals the number of events the selection
\* filter of addSelectedEvents returns, so the Add Selected button is
\* disabled for an empty selection exactly when the filter result is empty,
\* and addSelectedEvents never refuses when it is run from the button.
C21_CountMatchesFilter ==
    /\ selectedEventCount = Len(SelectedEvents(previewEvents, selectedGroups))
    /\ selectedEventCount = Cardinality(SelectedPositions)
    /\ (selectedEventCount = 0) <=> (SelectedPositions = {})
    /\ lastOp # "addSelectedEventsRefused"

\* the editor shows three events in two groups, the group of two selected
\* and the other one toggled off
C21_Witness ==
    /\ isEditorOpen
    /\ lastOp = "toggleGroup"
    /\ Len(previewEvents) = 3
    /\ Cardinality(KeysOfPreview) = 2
    /\ selectedEventCount = 2
    /\ Cardinality(SelectedPositions) = 2

\* C22: right after a preview call rejects, previewEvents and selectedGroups
\* are empty, the editor is closed and isPreviewing is false; and as long as
\* previewEvents is empty no step hands a batch to the sink, so nothing of
\* an earlier preview is submitted before a new preview has resolved.
C22_FailedPreviewClears ==
    /\ [](lastOp = "previewRejected" =>
            /\ previewEvents = <<>>
            /\ selectedGroups = NoSelection
            /\ ~isEditorOpen
            /\ ~isPreviewing)
    /\ [][previewEvents = <<>> => Len(pendingImports') <= Len(pendingImports)]_vars

\* a preview call has just rejected and left an empty, closed session
C22_Witness ==
    /\ lastOp = "previewRejected"
    /\ log = "error"
    /\ previewEvents = <<>>
    /\ DOMAIN selectedGroups = {}
    /\ ~isEditorOpen
    /\ pendingPreviews = 0

\* C23: the step in which addSelectedEvents starts an import and the step in
\* which the import settles, by success or by failure, both leave
\* previewEvents and selectedGroups as they were; and the batch held by the
\* sink stays the one handed over at the start until the import settles.
C23_ImportLeavesPreview ==
    /\ [][lastOp' \in {"addSelectedEvents", "importResolved", "importRejected"} =>
            /\ previewEvents' = previewEvents
            /\ selectedGroups' = selectedGroups]_vars
    /\ [][(pendingImports # <<>> /\ pendingImports' # <<>>) =>
            pendingImports' = pendingImports]_vars

\* an import of part of a three-event preview has just succeeded, and the
\* preview and its partial selection are still there
C23_Witness ==
    /\ lastOp = "importResolved"
    /\ ~isEditorOpen
    /\ Len(previewEvents) = 3
    /\ Cardinality(SelectedPositions) \in {1, 2}
    /\ DOMAIN selectedGroups = KeysOfPreview

\* C24: when every external call settles, isPreviewing once true becomes
\* false again and isAdding once true becomes false again, whether the call
\* succeeds or fails, and the session is again and again in a state where
\* neither flag is set.
C24_FlagsReleased ==
    /\ isPreviewing ~> ~isPreviewing
    /\ isAdding ~> ~isAdding
    /\ []<>(~isPreviewing /\ ~isAdding)

\* an import has just failed and released isAdding, the editor still open
C24_Witness ==
    /\ lastOp = "importRejected"
    /\ log = "error"
    /\ ~isAdding
    /\ ~isPreviewing
    /\ pendingImports = <<>>
    /\ isEditorOpen

\* C25: while a preview or an import is awaited (isPreviewing or isAdding is
\* true) no step changes selectedGroups, except the step in which the
\* awaited preview settles and resets the selection itself.
C25_SelectionFrozenInFlight ==
    [][((isPreviewing \/ isAdding) /\ lastOp' \notin {"previewResolved", "previewRejected"}) =>
          selectedGroups' = selectedGroups]_vars

====
